---- MODULE Spec2Model ----
(***************************************************************************)
(* FileOrganizer: the duplicate finder (scripts/doubleterminator.py), the  *)
(* sorter (scripts/sorttofolders.py) and the directory guard each of them  *)
(* has, as a state machine.  Paths and file names are sequences of         *)
(* one-character strings, so that lower-casing, separator replacement,     *)
(* substring tests and extension splitting are done as the code does them. *)
(***************************************************************************)
EXTENDS Integers, Sequences, FiniteSets, TLC

VARIABLES
    platform,     \* "posix" | "nt": which os.path the interpreter uses
    present,      \* the regular files that exist on disk
    content,      \* file -> byte sequence
    mtime,        \* file -> modification time
    linkTo,       \* file -> the file it is a symbolic link to (0: none)
    extRemoved,   \* number of files removed by another process so far
    scriptAt,     \* the directory the script file lies in
    homeAt,       \* the home directory of the account, os.path.expanduser("~")
    cwdAt,        \* the current working directory, os.getcwd()
    made,         \* the directories created by os.makedirs
    tool,         \* "none" | "dup" | "sort": which script was launched
    pc,           \* position of main()
    directory,    \* main's local `directory`
    duplicates,   \* main's local `duplicates`: None or [map |-> the ordered dict]
    guard,        \* the last is_protected_directory call: tool, path, result
    scan,         \* the find_duplicates call just made (None otherwise)
    del,          \* the delete_* call just made (None otherwise)
    msg,          \* the error and warning lines printed by the last step
    menu,         \* the menu input just handled: options shown, text typed
    tree,         \* the folder handed to organize_files: names, places, folders
    org           \* the organize_files call just made (None otherwise)

vars == <<platform, present, content, mtime, linkTo, extRemoved, scriptAt,
          homeAt, cwdAt, made, tool, pc, directory, duplicates, guard, scan,
          del, msg, menu, tree, org>>

None == [none |-> TRUE]

----------------------------------------------------------------------------
(* Bounds *)

MaxTime == 2
MaxByte == 2
MaxExternal == 1
MaxFail == 1

----------------------------------------------------------------------------
(* Strings as character sequences *)

SL == "/"
BS == "\\"

Upper == <<"A","B","C","D","E","F","G","H","I","J","K","L","M",
           "N","O","P","Q","R","S","T","U","V","W","X","Y","Z">>
LowerOf == <<"a","b","c","d","e","f","g","h","i","j","k","l","m",
             "n","o","p","q","r","s","t","u","v","w","x","y","z">>

\* str.lower() on one character
LowerChar(c) ==
    IF \E i \in 1..26 : Upper[i] = c
    THEN LowerOf[CHOOSE i \in 1..26 : Upper[i] = c]
    ELSE c

\* str.lower()
Lower(s) == [i \in 1..Len(s) |-> LowerChar(s[i])]

\* str.strip(): blanks taken off both ends
RECURSIVE Strip(_)
Strip(s) ==
    IF s = <<>> THEN s
    ELSE IF s[1] = " " THEN Strip(SubSeq(s, 2, Len(s)))
    ELSE IF s[Len(s)] = " " THEN Strip(SubSeq(s, 1, Len(s) - 1))
    ELSE s

\* str.replace(a, b) for single characters
Replace(s, a, b) == [i \in 1..Len(s) |-> IF s[i] = a THEN b ELSE s[i]]

\* `p in s` for strings
Contains(s, p) ==
    \E i \in 0..(Len(s) - Len(p)) : \A j \in 1..Len(p) : s[i + j] = p[j]

\* s.startswith(p)
StartsWith(s, p) ==
    /\ Len(p) <= Len(s)
    /\ \A j \in 1..Len(p) : s[j] = p[j]

\* str.split(c): the pieces between occurrences of c
RECURSIVE SplitFrom(_, _, _, _)
SplitFrom(s, c, i, cur) ==
    IF i > Len(s) THEN <<cur>>
    ELSE IF s[i] = c THEN <<cur>> \o SplitFrom(s, c, i + 1, <<>>)
    ELSE SplitFrom(s, c, i + 1, Append(cur, s[i]))

Split(s, c) == SplitFrom(s, c, 1, <<>>)

\* list.index(x), 1-based; 0 when absent
IndexOf(seq, x) ==
    IF \E i \in 1..Len(seq) : seq[i] = x
    THEN CHOOSE i \in 1..Len(seq) : seq[i] = x /\ \A j \in 1..(i - 1) : seq[j] # x
    ELSE 0

----------------------------------------------------------------------------
(* The directories of the machine, per platform.  The subfolder of photos *)
(* that holds a file is lib/old: a user's folder, under a folder whose    *)
(* name is one of the reserved segments of the guards.                    *)

DirIds == {"root", "sys", "sysapp", "users", "ualice", "photos", "sub"}

\* the home directory of a service account lies in a system directory
\* (/var/lib/svc; the profile of LocalSystem): nobody types it, but a
\* script that such an account starts has it as "~"
Places == DirIds \cup {"svc"}

\* what os.path.expanduser("~") can be: a user's home, the root (HOME=/ of
\* a daemon, the drive root) or the home of a service account
HomeIds == {"ualice", "root", "svc"}

PosixPath(d) ==
    CASE d = "root"   -> <<"/">>
      [] d = "sys"    -> <<"/","e","t","c">>
      [] d = "sysapp" -> <<"/","e","t","c","/","a","p","p">>
      [] d = "users"  -> <<"/","U","s","e","r","s">>
      [] d = "ualice" -> <<"/","U","s","e","r","s","/","a","l","i","c","e">>
      [] d = "photos" -> <<"/","h","o","m","e","/","a","l","i","c","e","/",
                           "p","h","o","t","o","s">>
      [] d = "sub"    -> <<"/","h","o","m","e","/","a","l","i","c","e","/",
                           "p","h","o","t","o","s","/","l","i","b","/",
                           "o","l","d">>
      [] d = "svc"    -> <<"/","v","a","r","/","l","i","b","/","s","v","c">>

NtPath(d) ==
    CASE d = "root"   -> <<"C",":",BS>>
      [] d = "sys"    -> <<"C",":",BS,"W","i","n","d","o","w","s">>
      [] d = "sysapp" -> <<"C",":",BS,"W","i","n","d","o","w","s",BS,"a","p","p">>
      [] d = "users"  -> <<"C",":",BS,"U","s","e","r","s">>
      [] d = "ualice" -> <<"C",":",BS,"U","s","e","r","s",BS,"A","l","i","c","e">>
      [] d = "photos" -> <<"C",":",BS,"p","h","o","t","o","s">>
      [] d = "sub"    -> <<"C",":",BS,"p","h","o","t","o","s",BS,"l","i","b",BS,
                           "o","l","d">>
      [] d = "svc"    -> <<"C",":",BS,"W","i","n","d","o","w","s",BS,
                           "S","y","s","t","e","m","3","2",BS,
                           "c","o","n","f","i","g",BS,
                           "s","y","s","t","e","m","p","r","o","f","i","l","e">>

Platforms == {"posix", "nt"}

PathOf ==
    [pl \in Platforms |->
        [d \in Places |-> IF pl = "posix" THEN PosixPath(d) ELSE NtPath(d)]]

DirPath(d) == PathOf[platform][d]

SepOf(pl) == IF pl = "posix" THEN SL ELSE BS

Sep == SepOf(platform)

\* what a user may type for an existing directory: its path, and for some
\* the path with a trailing separator
InputsOf ==
    [pl \in Platforms |->
        {PathOf[pl][d] : d \in DirIds}
            \cup {PathOf[pl][d] \o <<SepOf(pl)>> : d \in {"sys", "photos"}}]

DirInputs == InputsOf[platform]

\* a path that names no directory
MissingDir == <<"?">>

RECURSIVE StripTrailing(_, _, _)
StripTrailing(s, c, minLen) ==
    IF Len(s) > minLen /\ s[Len(s)] = c
    THEN StripTrailing(SubSeq(s, 1, Len(s) - 1), c, minLen)
    ELSE s

\* os.path.abspath on an absolute path: posixpath keeps "/" and drops
\* trailing slashes; ntpath turns "/" into "\", keeps the drive root "C:\"
\* and drops trailing backslashes
abspath_on(pl, path) ==
    IF pl = "posix"
    THEN StripTrailing(path, SL, 1)
    ELSE StripTrailing(Replace(path, SL, BS), BS, 3)

abspath(path) == abspath_on(platform, path)

\* os.path.isdir
isdir(path) ==
    \/ \E d \in Places : abspath(path) = DirPath(d)
    \/ abspath(path) \in made

DirOf(path) == CHOOSE d \in Places : DirPath(d) = abspath(path)

\* os.path.join(a, b) for a relative b: no separator is added after one
join_on(pl, a, b) ==
    IF a # <<>> /\ a[Len(a)] \in {SL, SepOf(pl)}
    THEN a \o b
    ELSE a \o <<SepOf(pl)>> \o b

\* d is `target` or lies below it in the tree
BelowOn ==
    [pl \in Platforms |-> [d \in DirIds |-> [target \in DirIds |->
        \/ d = target
        \/ StartsWith(PathOf[pl][d],
                      StripTrailing(PathOf[pl][target], SepOf(pl), 0)
                          \o <<SepOf(pl)>>)]]]

Below(d, target) == BelowOn[platform][d][target]

----------------------------------------------------------------------------
(* PathGuard: doubleterminator.py *)

protected_paths ==
    { <<"/","w","i","n","d","o","w","s","/">>,
      <<"/","s","y","s","t","e","m","3","2","/">>,
      <<"/","p","r","o","g","r","a","m"," ","f","i","l","e","s","/">>,
      <<"/","p","r","o","g","r","a","m","d","a","t","a","/">>,
      <<"/","b","o","o","t","/">>,
      <<"/","e","t","c","/">>,
      <<"/","u","s","r","/">>,
      <<"/","v","a","r","/">>,
      <<"/","l","i","b","/">> }

DuplicateScan == <<"D","u","p","l","i","c","a","t","e","S","c","a","n">>
FileOrganizer == <<"F","i","l","e","O","r","g","a","n","i","z","e","r">>

\* every path the guards are asked about
GuardedPaths ==
    [pl \in Platforms |->
        InputsOf[pl] \cup {<<>>}
            \cup {PathOf[pl][d] : d \in Places}
            \cup {join_on(pl, PathOf[pl][h], n) :
                       h \in HomeIds, n \in {DuplicateScan, FileOrganizer}}]

path_lower_of(pl, path) == Replace(Lower(abspath_on(pl, path)), BS, SL)

\* lines 56-70
is_protected_on(pl, path) ==
    LET path_lower == path_lower_of(pl, path) IN
    IF Len(path_lower) <= 3 /\ Contains(path_lower, <<":">>)
    THEN TRUE
    ELSE \E p \in protected_paths : Contains(path_lower, p)

ProtectedOn ==
    [pl \in Platforms |-> [p \in GuardedPaths[pl] |-> is_protected_on(pl, p)]]

is_protected_directory(path) == ProtectedOn[platform][path]

(* PathGuard: sorttofolders.py *)

windows_system_paths ==
    { <<"/","w","i","n","d","o","w","s","/">>,
      <<"/","s","y","s","t","e","m","3","2","/">>,
      <<"/","s","y","s","t","e","m","6","4","/">>,
      <<"/","p","r","o","g","r","a","m"," ","f","i","l","e","s","/">>,
      <<"/","p","r","o","g","r","a","m"," ","f","i","l","e","s"," ",
        "(","x","8","6",")","/">>,
      <<"/","p","r","o","g","r","a","m","d","a","t","a","/">>,
      <<"/","b","o","o","t","/">>,
      <<"/","s","y","s","t","e","m"," ","v","o","l","u","m","e"," ",
        "i","n","f","o","r","m","a","t","i","o","n","/">>,
      <<"$","w","i","n","d","o","w","s",".","~","b","t">>,
      <<"$","w","i","n","d","o","w","s",".","~","w","s">>,
      <<"w","i","n","d","o","w","s",".","o","l","d">>,
      <<"/","r","e","c","o","v","e","r","y","/">>,
      <<"/","p","e","r","f","l","o","g","s","/">> }

unix_system_paths ==
    { <<"/","e","t","c","/">>, <<"/","u","s","r","/">>,
      <<"/","v","a","r","/">>, <<"/","l","i","b","/">>,
      <<"/","b","i","n","/">>, <<"/","s","b","i","n","/">>,
      <<"/","s","y","s","t","e","m","/">>,
      <<"/","l","i","b","r","a","r","y","/">>,
      <<"/","a","p","p","l","i","c","a","t","i","o","n","s","/">> }

users_word == <<"u","s","e","r","s">>

\* the Users-root rule, lines 77-81
users_root_rule(path_lower) ==
    /\ Contains(path_lower, <<"/","u","s","e","r","s","/">>)
    /\ LET path_parts == Split(path_lower, SL) IN
       /\ IndexOf(path_parts, users_word) # 0
       /\ IndexOf(path_parts, users_word) = Len(path_parts) - 1

\* lines 54-84
sort_is_protected_on(pl, path) ==
    LET path_lower == path_lower_of(pl, path) IN
    IF Len(path_lower) <= 3 /\ Contains(path_lower, <<":">>)
    THEN TRUE
    ELSE IF users_root_rule(path_lower)
    THEN TRUE
    ELSE \/ \E p \in windows_system_paths : Contains(path_lower, p)
         \/ \E p \in unix_system_paths : Contains(path_lower, p)

SortProtectedOn ==
    [pl \in Platforms |->
        [p \in GuardedPaths[pl] |-> sort_is_protected_on(pl, p)]]

sort_is_protected_directory(path) == SortProtectedOn[platform][path]

----------------------------------------------------------------------------
(* The files of the machine: three in photos, one in photos/lib/old *)

Files == {1, 2, 3, 4}

FileDir(f) == IF f <= 3 THEN "photos" ELSE "sub"

\* what a file can hold: nothing, one byte, or two bytes
Contents == {<<>>} \cup {<<b>> : b \in 1..MaxByte} \cup {<<1, 1>>}

\* the file a path leads to: stat, open and getmtime follow a symbolic link
target(f) == IF linkTo[f] = 0 THEN f ELSE linkTo[f]

\* os.stat succeeds: the path exists and, for a link, so does its target
exists_on(f, onDisk) == f \in onDisk /\ target(f) \in onDisk

\* os.path.getsize of an existing file
getsize(f) == Len(content[target(f)])

\* os.path.getmtime of an existing file
getmtime(f) == mtime[target(f)]

\* hashlib.md5 over the whole byte stream.  The digest is computed from
\* the bytes, positionally, and is collision-free on the bounded contents.
RECURSIVE md5_update(_, _, _)
md5_update(h, data, i) ==
    IF i > Len(data) THEN h
    ELSE md5_update(h * (MaxByte + 2) + data[i], data, i + 1)

md5(data) == md5_update(1, data, 1)

\* a set of files as the sequence in directory-listing order
RECURSIVE Listing(_)
Listing(S) ==
    IF S = {} THEN <<>>
    ELSE LET f == CHOOSE x \in S : \A y \in S : x <= y
         IN <<f>> \o Listing(S \ {f})

\* os.listdir + isfile (lines 109, 133-135) or os.walk top-down (106, 118)
walk(dir, recursive) ==
    LET here  == {f \in present : FileDir(f) = dir /\
                                   (recursive \/ exists_on(f, present))}
        below == {f \in present : FileDir(f) # dir /\ Below(FileDir(f), dir)}
    IN IF recursive THEN Listing(here) \o Listing(below) ELSE Listing(here)

(* Python's insertion-ordered dict of lists, as a sequence of entries *)

HasKey(d, k) == \E i \in 1..Len(d) : d[i].key = k

KeyIndex(d, k) == CHOOSE i \in 1..Len(d) : d[i].key = k

\* d[k].append(f) on a defaultdict(list)
DictAppend(d, k, f) ==
    IF HasKey(d, k)
    THEN [d EXCEPT ![KeyIndex(d, k)].files = Append(@, f)]
    ELSE Append(d, [key |-> k, files |-> <<f>>])

\* d[k] = list
DictPut(d, k, list) ==
    IF HasKey(d, k)
    THEN [d EXCEPT ![KeyIndex(d, k)].files = list]
    ELSE Append(d, [key |-> k, files |-> list])

Range(seq) == {seq[i] : i \in 1..Len(seq)}

\* the size pass, lines 117-146: a file whose getsize fails enters no bucket
RECURSIVE group_by_size(_, _, _, _)
group_by_size(files, i, statFail, files_by_size) ==
    IF i > Len(files) THEN files_by_size
    ELSE IF files[i] \in statFail \/ ~exists_on(files[i], present)
    THEN group_by_size(files, i + 1, statFail, files_by_size)
    ELSE group_by_size(files, i + 1, statFail,
                       DictAppend(files_by_size, getsize(files[i]), files[i]))

\* variant: the except branch does not count
processed_in_try(files, statFail) ==
    Cardinality({i \in 1..Len(files) : files[i] \notin statFail})

\* processed_files after the size pass: one per file, in try and in except
processed_after(files, statFail) ==
    Cardinality({i \in 1..Len(files) : files[i] \notin statFail})
        + Cardinality({i \in 1..Len(files) : files[i] \in statFail})

\* variant: only buckets of three or more files are hashed
bucket_of_three(files) == Len(files) > 2

\* variant: every bucket is hashed
bucket_of_any(files) == Len(files) >= 1

\* line 164 (and 153): a size bucket is hashed when it has 2+ members
bucket_is_hashed(files) == Len(files) > 1

\* variant: every digest list becomes a group
any_digest_list(file_list) == Len(file_list) >= 1

\* line 175: a digest list becomes a group when it has 2+ members
is_duplicate_group(file_list) == Len(file_list) > 1

\* variant: the digest is taken of the file's length, not of its bytes
hash_of_length(f, hashFail) ==
    IF f \in hashFail \/ ~exists_on(f, present) THEN None
    ELSE [hexdigest |-> md5(<<Len(content[target(f)])>>)]

\* calculate_file_hash, lines 72-84: None when the file cannot be read
calculate_file_hash(f, hashFail) ==
    IF f \in hashFail \/ ~exists_on(f, present) THEN None
    ELSE [hexdigest |-> md5(content[target(f)])]

\* variant: a file that cannot be read discards its whole bucket
RECURSIVE hash_bucket_or_nothing(_, _, _, _)
hash_bucket_or_nothing(files, i, hashFail, hashes) ==
    IF i > Len(files) THEN hashes
    ELSE LET file_hash == calculate_file_hash(files[i], hashFail) IN
         IF file_hash # None
         THEN hash_bucket_or_nothing(files, i + 1, hashFail,
                                     DictAppend(hashes, file_hash, files[i]))
         ELSE <<>>

\* lines 165-170: the digests of one bucket
RECURSIVE hash_bucket(_, _, _, _)
hash_bucket(files, i, hashFail, hashes) ==
    IF i > Len(files) THEN hashes
    ELSE LET file_hash == calculate_file_hash(files[i], hashFail) IN
         IF file_hash # None
         THEN hash_bucket(files, i + 1, hashFail,
                          DictAppend(hashes, file_hash, files[i]))
         ELSE hash_bucket(files, i + 1, hashFail, hashes)

\* lines 174-176
RECURSIVE collect_groups(_, _, _)
collect_groups(hashes, i, dups) ==
    IF i > Len(hashes) THEN dups
    ELSE IF is_duplicate_group(hashes[i].files)
    THEN collect_groups(hashes, i + 1,
                        DictPut(dups, hashes[i].key, hashes[i].files))
    ELSE collect_groups(hashes, i + 1, dups)

\* lines 163-176
RECURSIVE hash_pass(_, _, _, _)
hash_pass(files_by_size, i, hashFail, dups) ==
    IF i > Len(files_by_size) THEN dups
    ELSE IF bucket_is_hashed(files_by_size[i].files)
    THEN hash_pass(files_by_size, i + 1, hashFail,
                   collect_groups(hash_bucket(files_by_size[i].files, 1,
                                              hashFail, <<>>), 1, dups))
    ELSE hash_pass(files_by_size, i + 1, hashFail, dups)

\* the files calculate_file_hash is called on, in call order
RECURSIVE hashed_files_of(_, _)
hashed_files_of(files_by_size, i) ==
    IF i > Len(files_by_size) THEN <<>>
    ELSE (IF bucket_is_hashed(files_by_size[i].files)
          THEN files_by_size[i].files ELSE <<>>)
         \o hashed_files_of(files_by_size, i + 1)

RECURSIVE SumLen(_, _)
SumLen(d, i) ==
    IF i > Len(d) THEN 0
    ELSE (IF Len(d[i].files) > 1 THEN Len(d[i].files) ELSE 0) + SumLen(d, i + 1)

\* find_duplicates, lines 98-182
find_duplicates(dir, recursive, statFail, hashFail) ==
    LET files         == walk(dir, recursive)
        total_files   == Len(files)
        files_by_size == group_by_size(files, 1, statFail, <<>>)
        files_to_hash == SumLen(files_by_size, 1)
    IN IF total_files = 0
       THEN [duplicates |-> <<>>, files |-> files, total_files |-> 0,
             processed_files |-> 0, hashed |-> <<>>]
       ELSE IF files_to_hash = 0
       THEN [duplicates |-> <<>>, files |-> files,
             total_files |-> total_files,
             processed_files |-> processed_after(files, statFail),
             hashed |-> <<>>]
       ELSE [duplicates |-> hash_pass(files_by_size, 1, hashFail, <<>>),
             files |-> files,
             total_files |-> total_files,
             processed_files |-> processed_after(files, statFail),
             hashed |-> hashed_files_of(files_by_size, 1)]

----------------------------------------------------------------------------
(* Resolution: delete_duplicates and delete_interactive *)

\* variant: a sort that puts a file before the files of equal time
RECURSIVE insert_before_equal(_, _)
insert_before_equal(sorted, f) ==
    IF sorted = <<>> THEN <<f>>
    ELSE IF getmtime(sorted[Len(sorted)]) < getmtime(f) THEN Append(sorted, f)
    ELSE Append(insert_before_equal(SubSeq(sorted, 1, Len(sorted) - 1), f),
                sorted[Len(sorted)])

\* file_list.sort(key=os.path.getmtime): stable, ascending
RECURSIVE insert_by_mtime(_, _)
insert_by_mtime(sorted, f) ==
    IF sorted = <<>> THEN <<f>>
    ELSE IF getmtime(sorted[Len(sorted)]) <= getmtime(f)
    THEN Append(sorted, f)
    ELSE Append(insert_by_mtime(SubSeq(sorted, 1, Len(sorted) - 1), f),
                sorted[Len(sorted)])

RECURSIVE sort_from(_, _, _)
sort_from(file_list, i, sorted) ==
    IF i > Len(file_list) THEN sorted
    ELSE sort_from(file_list, i + 1, insert_by_mtime(sorted, file_list[i]))

sort_by_mtime(file_list) == sort_from(file_list, 1, <<>>)

\* os.path.getmtime raises FileNotFoundError for a file that is gone; the
\* sort is outside every try block (lines 191, 218, 262)
sort_raises(file_list, onDisk) ==
    \E f \in Range(file_list) : ~exists_on(f, onDisk)

\* lines 194-197 and 221-226
file_to_keep(file_list, keepOldest) ==
    IF keepOldest THEN file_list[1] ELSE file_list[Len(file_list)]

\* variant: the slices of lines 195 and 197 exchanged
files_to_delete_exchanged(file_list, keepOldest) ==
    IF keepOldest THEN SubSeq(file_list, 1, Len(file_list) - 1)
    ELSE SubSeq(file_list, 2, Len(file_list))

files_to_delete(file_list, keepOldest) ==
    IF keepOldest THEN SubSeq(file_list, 2, Len(file_list))
    ELSE SubSeq(file_list, 1, Len(file_list) - 1)

\* variant: the size is read after the file is removed
reclaimed_after_removal(f) == 0

\* what one removal adds to reclaimed_space (lines 202, 205)
reclaimed_by(f) == getsize(f)

\* the state of a resolver run
NewRun(onDisk) ==
    [onDisk |-> onDisk, deleted_count |-> 0, reclaimed_space |-> 0,
     removed |-> {}, failed |-> {}, reported |-> {}, groups |-> <<>>,
     raised |-> FALSE]

\* variant: the counters are advanced before os.remove is called
RECURSIVE remove_files_counting_first(_, _, _, _, _)
remove_files_counting_first(to_delete, j, rmFail, report, run) ==
    IF j > Len(to_delete) THEN run
    ELSE LET f == to_delete[j] IN
         IF ~exists_on(f, run.onDisk)
         THEN remove_files_counting_first(to_delete, j + 1, rmFail, report,
                  [run EXCEPT !.failed = @ \cup {f},
                              !.reported = IF report THEN @ \cup {f} ELSE @])
         ELSE IF f \in rmFail
         THEN remove_files_counting_first(to_delete, j + 1, rmFail, report,
                  [run EXCEPT !.deleted_count = @ + 1,
                              !.reclaimed_space = @ + reclaimed_by(f),
                              !.failed = @ \cup {f},
                              !.reported = IF report THEN @ \cup {f} ELSE @])
         ELSE remove_files_counting_first(to_delete, j + 1, rmFail, report,
                  [run EXCEPT !.onDisk = @ \ {f},
                              !.deleted_count = @ + 1,
                              !.reclaimed_space = @ + reclaimed_by(f),
                              !.removed = @ \cup {f}])

\* lines 200-207 and 239-247: the removal loop of one group.  os.remove
\* fails for a file in rmFail (permission denied, or removed by someone
\* else since the sort) and getsize for a file that is gone or a link whose
\* target is gone; both are caught.  `report` is the print of line 247.
RECURSIVE remove_files(_, _, _, _, _)
remove_files(to_delete, j, rmFail, report, run) ==
    IF j > Len(to_delete) THEN run
    ELSE LET f == to_delete[j] IN
         IF ~exists_on(f, run.onDisk) \/ f \in rmFail
         THEN remove_files(to_delete, j + 1, rmFail, report,
                  [run EXCEPT !.failed = @ \cup {f},
                              !.reported = IF report THEN @ \cup {f} ELSE @])
         ELSE remove_files(to_delete, j + 1, rmFail, report,
                  [run EXCEPT !.onDisk = @ \ {f},
                              !.deleted_count = @ + 1,
                              !.reclaimed_space = @ + reclaimed_by(f),
                              !.removed = @ \cup {f}])

\* what can be typed at the prompt of line 237
AnswerInputs == {<<"y">>, <<" ", "Y">>, <<"n">>}

\* variant: the answer is not looked at
answered_anything(answer) == TRUE

\* lines 237-238: confirm = input(...).strip().lower(); confirm == 'y'
answered_yes(answer) == Lower(Strip(answer)) = <<"y">>

\* one group of either resolver: sort, choose, (confirm,) remove; `answer`
\* is what was typed at the group's prompt (nothing in delete_duplicates,
\* which has no prompt)
resolve_group(file_list, keepOldest, answer, confirmed, rmFail, report, run) ==
    IF sort_raises(file_list, run.onDisk)
    THEN [run EXCEPT !.raised = TRUE]
    ELSE LET sorted == sort_by_mtime(file_list)
             keep   == file_to_keep(sorted, keepOldest)
             rest   == files_to_delete(sorted, keepOldest)
             seen   == [run EXCEPT !.groups =
                           Append(@, [files |-> sorted, keep |-> keep,
                                      to_delete |-> rest,
                                      answer |-> answer,
                                      confirmed |-> confirmed])]
         IN IF confirmed
            THEN remove_files(rest, 1, rmFail, report, seen)
            ELSE seen

\* delete_duplicates, lines 184-209
RECURSIVE delete_duplicates(_, _, _, _, _)
delete_duplicates(dups, i, keepOldest, rmFail, run) ==
    IF i > Len(dups) \/ run.raised THEN run
    ELSE delete_duplicates(dups, i + 1, keepOldest, rmFail,
             resolve_group(dups[i].files, keepOldest, <<>>, TRUE, rmFail,
                           FALSE, run))

\* delete_interactive, lines 211-249; answers[i] is what is typed at the
\* prompt of the i-th group
\* prompt was answered 'y'
RECURSIVE delete_interactive(_, _, _, _, _, _)
delete_interactive(dups, i, keepOldest, answers, rmFail, run) ==
    IF i > Len(dups) \/ run.raised THEN run
    ELSE delete_interactive(dups, i + 1, keepOldest, answers, rmFail,
             resolve_group(dups[i].files, keepOldest, answers[i],
                           answered_yes(answers[i]), rmFail, TRUE, run))

\* show_duplicates_list, lines 251-272: getsize(file_list[0]) and the sort
\* raise when a listed file is gone; the lists are sorted in place
list_raises(dups) == \E i \in 1..Len(dups) : sort_raises(dups[i].files, present)

sorted_in_place(dups) ==
    [i \in 1..Len(dups) |->
        [key |-> dups[i].key, files |-> sort_by_mtime(dups[i].files)]]

\* lines 308-309 and 385-386: the totals shown with the menu read the
\* size of each group's first file
totals_raise(dups) ==
    \E i \in 1..Len(dups) : ~exists_on(dups[i].files[1], present)

----------------------------------------------------------------------------
(* get_safe_default_directory, in both scripts *)

script_dir == DirPath(scriptAt)
home_dir == DirPath(homeAt)
current_dir == DirPath(cwdAt)

\* doubleterminator.py lines 33-54
get_safe_default_directory ==
    IF ~is_protected_directory(script_dir) THEN script_dir
    ELSE IF ~is_protected_directory(home_dir) THEN home_dir
    ELSE IF ~is_protected_directory(current_dir) THEN current_dir
    ELSE join_on(platform, home_dir, DuplicateScan)

\* lines 52-53: the last resort is created when it does not exist
makedirs_of_default ==
    IF /\ is_protected_directory(script_dir)
       /\ is_protected_directory(home_dir)
       /\ is_protected_directory(current_dir)
    THEN {join_on(platform, home_dir, DuplicateScan)}
    ELSE {}

\* sorttofolders.py lines 31-52
sort_get_safe_default_directory ==
    IF ~sort_is_protected_directory(script_dir) THEN script_dir
    ELSE IF ~sort_is_protected_directory(home_dir) THEN home_dir
    ELSE IF ~sort_is_protected_directory(current_dir) THEN current_dir
    ELSE join_on(platform, home_dir, FileOrganizer)

\* sorttofolders.py lines 50-51
sort_makedirs_of_default ==
    IF /\ sort_is_protected_directory(script_dir)
       /\ sort_is_protected_directory(home_dir)
       /\ sort_is_protected_directory(current_dir)
    THEN {join_on(platform, home_dir, FileOrganizer)}
    ELSE {}

----------------------------------------------------------------------------
(* organize_files: sorttofolders.py.  The folder being organized is a     *)
(* record: the name of each file, the folder each file lies in (a path of *)
(* folder names relative to `directory`, <<>> for the folder itself) and  *)
(* the subfolders that exist.                                             *)

\* get_file_categories, lines 86-99, in the order of the dict
categories ==
    << [k |-> <<"I", "m", "a", "g", "e", "s">>,
        v |-> {<<".", "j", "p", "g">>, <<".", "j", "p", "e", "g">>,
               <<".", "p", "n", "g">>, <<".", "g", "i", "f">>,
               <<".", "b", "m", "p">>, <<".", "t", "i", "f", "f">>,
               <<".", "s", "v", "g">>, <<".", "w", "e", "b", "p">>,
               <<".", "h", "e", "i", "c">>, <<".", "r", "a", "w">>}],
       [k |-> <<"D", "o", "c", "u", "m", "e", "n", "t", "s">>,
        v |-> {<<".", "p", "d", "f">>, <<".", "d", "o", "c">>,
               <<".", "d", "o", "c", "x">>, <<".", "t", "x", "t">>,
               <<".", "r", "t", "f">>, <<".", "x", "l", "s">>,
               <<".", "x", "l", "s", "x">>, <<".", "p", "p", "t">>,
               <<".", "p", "p", "t", "x">>, <<".", "o", "d", "t">>,
               <<".", "o", "d", "s">>, <<".", "o", "d", "p">>}],
       [k |-> <<"A", "r", "c", "h", "i", "v", "e", "s">>,
        v |-> {<<".", "z", "i", "p">>, <<".", "r", "a", "r">>,
               <<".", "7", "z">>, <<".", "t", "a", "r">>, <<".", "g", "z">>,
               <<".", "b", "z", "2">>, <<".", "x", "z">>}],
       [k |-> <<"A", "u", "d", "i", "o">>,
        v |-> {<<".", "m", "p", "3">>, <<".", "w", "a", "v">>,
               <<".", "f", "l", "a", "c">>, <<".", "a", "a", "c">>,
               <<".", "o", "g", "g">>, <<".", "w", "m", "a">>,
               <<".", "m", "4", "a">>}],
       [k |-> <<"V", "i", "d", "e", "o">>,
        v |-> {<<".", "m", "p", "4">>, <<".", "a", "v", "i">>,
               <<".", "m", "o", "v">>, <<".", "w", "m", "v">>,
               <<".", "f", "l", "v">>, <<".", "m", "k", "v">>,
               <<".", "m", "4", "v">>, <<".", "w", "e", "b", "m">>,
               <<".", "m", "p", "e", "g">>, <<".", "m", "p", "g">>}],
       [k |-> <<"C", "o", "d", "e">>,
        v |-> {<<".", "p", "y">>, <<".", "j", "s">>,
               <<".", "h", "t", "m", "l">>, <<".", "c", "s", "s">>,
               <<".", "j", "a", "v", "a">>, <<".", "c", "p", "p">>,
               <<".", "c">>, <<".", "p", "h", "p">>, <<".", "r", "b">>,
               <<".", "x", "m", "l">>, <<".", "j", "s", "o", "n">>,
               <<".", "y", "a", "m", "l">>, <<".", "y", "m", "l">>}],
       [k |-> <<"E", "x", "e", "c", "u", "t", "a", "b", "l", "e", "s">>,
        v |-> {<<".", "e", "x", "e">>, <<".", "m", "s", "i">>,
               <<".", "d", "e", "b">>, <<".", "r", "p", "m">>,
               <<".", "a", "p", "p", "i", "m", "a", "g", "e">>,
               <<".", "b", "a", "t">>, <<".", "s", "h">>,
               <<".", "c", "m", "d">>}],
       [k |-> <<"D", "a", "t", "a">>,
        v |-> {<<".", "c", "s", "v">>, <<".", "j", "s", "o", "n">>,
               <<".", "x", "m", "l">>, <<".", "s", "q", "l">>,
               <<".", "d", "b">>, <<".", "s", "q", "l", "i", "t", "e">>,
               <<".", "s", "q", "l", "i", "t", "e", "3">>}],
       [k |-> <<"F", "o", "n", "t", "s">>,
        v |-> {<<".", "t", "t", "f">>, <<".", "o", "t", "f">>,
               <<".", "w", "o", "f", "f">>, <<".", "w", "o", "f", "f", "2">>,
               <<".", "e", "o", "t">>}],
       [k |-> <<"O", "t", "h", "e", "r">>,
        v |-> {}] >>

Other == <<"O", "t", "h", "e", "r">>

\* the position of the last "." of a name, 0 when it has none
RECURSIVE LastDot(_, _)
LastDot(name, i) ==
    IF i = 0 THEN 0
    ELSE IF name[i] = "." THEN i
    ELSE LastDot(name, i - 1)

\* os.path.splitext(filename)[1]: from the last dot on, unless only dots
\* come before it
splitext_ext(name) ==
    LET i == LastDot(name, Len(name)) IN
    IF i = 0 \/ \A j \in 1..(i - 1) : name[j] = "." THEN <<>>
    ELSE SubSeq(name, i, Len(name))

\* line 207: the first category that lists the extension, else 'Other'
RECURSIVE category_from(_, _)
category_from(ext, i) ==
    IF i > Len(categories) THEN Other
    ELSE IF ext \in categories[i].v THEN categories[i].k
    ELSE category_from(ext, i + 1)

category_of(name) == category_from(Lower(splitext_ext(name)), 1)

\* datetime.fromtimestamp of the modification times of the bounds: the
\* year, the month and the day as the format strings of lines 215-224
\* print them
Calendar(t) ==
    CASE t = 1 -> [year |-> <<"2", "0", "2", "3">>, month |-> <<"0", "5">>,
                   day |-> <<"1", "5">>, B |-> <<"M", "a", "y">>]
      [] t = 2 -> [year |-> <<"2", "0", "2", "3">>, month |-> <<"0", "6">>,
                   day |-> <<"1", "5">>, B |-> <<"J", "u", "n", "e">>]
      [] t = 3 -> [year |-> <<"2", "0", "2", "4">>, month |-> <<"0", "5">>,
                   day |-> <<"0", "1">>, B |-> <<"M", "a", "y">>]
      [] OTHER -> [year |-> <<"2", "0", "2", "4">>, month |-> <<"0", "6">>,
                   day |-> <<"0", "1">>, B |-> <<"J", "u", "n", "e">>]

DateFormats == 1..5

\* lines 213-224
date_folder(mode, date_format, t) ==
    LET d == Calendar(t) IN
    IF mode \notin {2, 3} THEN <<>>
    ELSE CASE date_format = 1 -> d.year
           [] date_format = 2 -> d.year \o <<"-">> \o d.month
           [] date_format = 3 -> d.year \o <<"-">> \o d.month \o <<"-">> \o d.day
           [] date_format = 4 -> d.B
           [] date_format = 5 -> d.B \o <<"-">> \o d.year
           [] OTHER -> <<>>

\* lines 227-232: the target folder, relative to `directory`
target_dir_of(mode, category, folder) ==
    CASE mode = 1 -> <<category>>
      [] mode = 2 -> <<folder>>
      [] mode = 3 -> <<category, folder>>

\* the path of a file of the folder
file_path_of(tr, f) == Append(tr.at[f], tr.name[f])

\* variant: the check of line 242 never finds the target
target_never_exists(tr, onDisk, path) == FALSE

\* os.path.exists: a file or a folder has the path
path_exists(tr, onDisk, path) ==
    \/ \E f \in onDisk : file_path_of(tr, f) = path
    \/ path \in tr.dirs

\* the folder and the folders above it
Prefixes(dir) == {SubSeq(dir, 1, n) : n \in 0..Len(dir)}

\* os.makedirs(target_dir, exist_ok=True) raises when a file has the path
\* of the folder or of a folder above it
makedirs_raises(tr, onDisk, dir) ==
    \E p \in Prefixes(dir) : \E f \in onDisk : file_path_of(tr, f) = p

\* shutil.move within one file system is os.rename, which replaces a file
\* that has the target path
move(tr, onDisk, f, dir) ==
    [tree |-> [tr EXCEPT !.at[f] = dir],
     onDisk |-> onDisk \ {g \in onDisk :
                   g # f /\ file_path_of(tr, g) = Append(dir, tr.name[f])}]

\* lines 157-192: the files organize_files lists; names that start with
\* "." are left out, and without include_subfolders so are the files of
\* the subfolders
files_to_organize(tr, onDisk, recursive) ==
    LET here  == {f \in onDisk : tr.at[f] = <<>> /\ tr.name[f][1] # "."}
        below == {f \in onDisk : tr.at[f] # <<>> /\ tr.name[f][1] # "."}
    IN IF recursive THEN Listing(here) \o Listing(below) ELSE Listing(here)

\* the state of an organize_files run
NewOrganize(tr, onDisk) ==
    [tree |-> tr, onDisk |-> onDisk, moved |-> 0, skipped |-> 0,
     errors |-> 0, steps |-> <<>>, returned |-> None]

\* what one pass of the loop did with a file
Pass(tr, f, target_dir, existed, outcome) ==
    [file |-> f, from |-> tr.at[f], to |-> target_dir, existed |-> existed,
     outcome |-> outcome]

\* lines 204-254: one pass of the loop per listed file.  shutil.move
\* fails for a file in mvFail (permission denied); every exception of the
\* pass is caught and counted.
RECURSIVE organize_loop(_, _, _, _, _, _)
organize_loop(file_list, i, mode, date_format, mvFail, run) ==
    IF i > Len(file_list) THEN [run EXCEPT !.returned = TRUE]
    ELSE IF mode \notin {1, 2, 3} THEN [run EXCEPT !.returned = FALSE]
    ELSE LET f           == file_list[i]
             tr          == run.tree
             category    == category_of(tr.name[f])
             folder      == date_folder(mode, date_format, getmtime(f))
             target_dir  == target_dir_of(mode, category, folder)
             target_path == Append(target_dir, tr.name[f])
             found       == path_exists(tr, run.onDisk, target_path)
             made_tree   == [tr EXCEPT !.dirs = @ \cup Prefixes(target_dir)]
             mv          == move(made_tree, run.onDisk, f, target_dir)
         IN
         organize_loop(file_list, i + 1, mode, date_format, mvFail,
             IF makedirs_raises(tr, run.onDisk, target_dir)
             THEN [run EXCEPT
                      !.errors = @ + 1,
                      !.steps = Append(@, Pass(tr, f, target_dir, found,
                                               "error"))]
             ELSE IF found
             THEN [run EXCEPT
                      !.tree = made_tree,
                      !.skipped = @ + 1,
                      !.steps = Append(@, Pass(tr, f, target_dir, TRUE,
                                               "skipped"))]
             ELSE IF f \in mvFail
             THEN [run EXCEPT
                      !.tree = made_tree,
                      !.errors = @ + 1,
                      !.steps = Append(@, Pass(tr, f, target_dir, FALSE,
                                               "error"))]
             ELSE [run EXCEPT
                      !.tree = mv.tree,
                      !.onDisk = mv.onDisk,
                      !.moved = @ + 1,
                      !.steps = Append(@, Pass(tr, f, target_dir, FALSE,
                                               "moved"))])

\* organize_files, lines 138-265: False for a refused or missing
\* directory and when no file is listed, else the loop
organize_files(dir, tr, onDisk, mode, date_format, recursive, mvFail) ==
    LET file_list == files_to_organize(tr, onDisk, recursive) IN
    IF ~isdir(dir) \/ sort_is_protected_directory(dir)
    THEN [NewOrganize(tr, onDisk) EXCEPT !.returned = FALSE]
    ELSE IF Len(file_list) = 0
    THEN [NewOrganize(tr, onDisk) EXCEPT !.returned = FALSE]
    ELSE organize_loop(file_list, 1, mode, date_format, mvFail,
                       NewOrganize(tr, onDisk))

----------------------------------------------------------------------------
(* The state machine *)

\* the files the sorter's folder holds
SortFiles == {1, 2, 3}

\* the folder of the runs that do not organize it
PlainTree ==
    [name |-> [f \in SortFiles |-> <<"f">>],
     at   |-> [f \in SortFiles |-> <<>>],
     dirs |-> {<<>>}]

\* the trees the scripts are launched on: two pairs of equal files with
\* one pair split over the folders, and four equal files with tied times
Trees ==
    { [content |-> <<<<1>>, <<1>>, <<2>>, <<2>>>>, mtime |-> <<2, 1, 1, 2>>],
      [content |-> <<<<1>>, <<1>>, <<1>>, <<1>>>>, mtime |-> <<1, 1, 2, 1>>] }

Init ==
    /\ platform \in Platforms
    /\ present = Files
    /\ \E t \in Trees : content = t.content /\ mtime = t.mtime
    /\ linkTo = [f \in Files |-> 0]
    /\ extRemoved = 0
    /\ scriptAt \in {"photos", "sysapp"}
    /\ homeAt = "ualice"
    /\ cwdAt = "photos"
    /\ made = {}
    /\ tool = "none"
    /\ pc = "start"
    /\ directory = <<>>
    /\ duplicates = None
    /\ guard = None
    /\ scan = None
    /\ del = None
    /\ msg = {}
    /\ menu = None
    /\ tree = PlainTree
    /\ org = None

\* the files whose stat, read or removal the environment lets fail
FailSets(S) == {F \in SUBSET S : Cardinality(F) <= MaxFail}

\* the failures of one scan: getsize fails for statFail, reading for
\* hashFail, which are files the scan does read
ScanFailures(dir, recursive) ==
    {p \in FailSets(Range(walk(dir, recursive)))
            \X FailSets(Range(walk(dir, recursive))) :
        /\ Cardinality(p[1]) + Cardinality(p[2]) <= MaxFail
        /\ p[2] \subseteq
              Range(hashed_files_of(
                        group_by_size(walk(dir, recursive), 1, p[1], <<>>), 1))}

\* the files of the held groups
Members(dups) == UNION {Range(dups[i].files) : i \in 1..Len(dups)}

\* what can be typed at a directory prompt
Typed == DirInputs \cup {MissingDir, <<>>}

ScanRecord(path, recursive, statFail, hashFail, r) ==
    [dir |-> path, recursive |-> recursive, statFail |-> statFail,
     hashFail |-> hashFail, duplicates |-> r.duplicates, files |-> r.files,
     total_files |-> r.total_files, processed_files |-> r.processed_files,
     hashed |-> r.hashed]

DelRecord(op, dups, keepOldest, rmFail, run) ==
    [op |-> op, dir |-> directory, dups |-> dups, keep_oldest |-> keepOldest,
     before |-> present, rmFail |-> rmFail, run |-> run]

\* variant: main without its guard
never_protected(path) == FALSE

\* the guard of main, lines 297 and 357
target_is_protected(path) == is_protected_directory(path)

\* another process removes a file while the tool waits at a prompt
EnvRemove ==
    /\ pc \in {"d_menu", "b_confirm"}
    /\ extRemoved < MaxExternal
    /\ \E f \in present :
        /\ present' = present \ {f}
        /\ extRemoved' = extRemoved + 1
    /\ scan' = None
    /\ del' = None
    /\ guard' = None
    /\ menu' = None
    /\ UNCHANGED <<platform, content, mtime, linkTo, tree, org, scriptAt,
                   homeAt, cwdAt, made, tool, pc, directory, duplicates, msg>>

(* doubleterminator.py main, non-interactive: lines 288-332 *)

DupBatchStart ==
    /\ pc = "start"
    /\ tool' = "dup"
    /\ \E arg \in DirInputs \cup {MissingDir}, sub \in BOOLEAN :
        /\ directory' = arg
        /\ IF ~isdir(arg)
           THEN /\ msg' = {"not_found"}
                /\ pc' = "done"
                /\ UNCHANGED <<guard, scan, duplicates>>
           ELSE IF target_is_protected(arg)
           THEN /\ guard' = [tool |-> "dup", path |-> arg, result |-> TRUE]
                /\ msg' = {"protected"}
                /\ pc' = "done"
                /\ UNCHANGED <<scan, duplicates>>
           ELSE \E fail \in ScanFailures(DirOf(arg), sub) :
                LET r == find_duplicates(DirOf(arg), sub, fail[1], fail[2]) IN
                /\ guard' = [tool |-> "dup", path |-> arg, result |-> FALSE]
                /\ scan' = ScanRecord(arg, sub, fail[1], fail[2], r)
                /\ duplicates' = [map |-> r.duplicates]
                /\ IF r.duplicates = <<>>
                   THEN /\ msg' = {"no_duplicates"}
                        /\ pc' = "done"
                   ELSE /\ msg' = {}
                        /\ pc' = "b_confirm"
    /\ del' = None
    /\ menu' = None
    /\ UNCHANGED <<platform, present, content, mtime, linkTo, tree, org,
                   extRemoved, scriptAt, homeAt, cwdAt, made>>

DupBatchConfirm ==
    /\ pc = "b_confirm"
    /\ \E confirm \in BOOLEAN, keep \in BOOLEAN,
          rmFail \in FailSets(Members(duplicates.map)) :
        IF ~confirm
        THEN /\ msg' = {"cancelled"}
             /\ pc' = "done"
             /\ del' = None
             /\ UNCHANGED <<present>>
        ELSE LET run == delete_duplicates(duplicates.map, 1, keep, rmFail,
                                          NewRun(present)) IN
             /\ present' = run.onDisk
             /\ del' = DelRecord("bulk", duplicates.map, keep, rmFail, run)
             /\ msg' = {}
             /\ pc' = IF run.raised THEN "crashed" ELSE "done"
    /\ scan' = None
    /\ guard' = None
    /\ menu' = None
    /\ UNCHANGED <<platform, content, mtime, linkTo, tree, org, extRemoved,
                   scriptAt, homeAt, cwdAt, made, tool, directory, duplicates>>

(* doubleterminator.py main, interactive: lines 335-471 *)

\* lines 338-353; the default directory is computed before the prompt
DupInteractiveStart ==
    /\ pc = "start"
    /\ tool' = "dup"
    /\ \E directory_input \in Typed :
        IF directory_input # <<>>
        THEN IF isdir(directory_input)
             THEN /\ directory' = abspath(directory_input)
                  /\ msg' = {}
             ELSE /\ directory' = get_safe_default_directory
                  /\ msg' = {"not_found"}
        ELSE /\ directory' = get_safe_default_directory
             /\ msg' = {}
    /\ duplicates' = None
    /\ made' = made \cup makedirs_of_default
    /\ pc' = "d_loop"
    /\ guard' = None
    /\ menu' = None
    /\ UNCHANGED <<platform, present, content, mtime, linkTo, tree, org,
                   extRemoved, scriptAt, homeAt, cwdAt, scan, del>>

\* variant: the groups are still held after the directory was changed
held_after_directory_change(held) == held

\* lines 363 and 449: duplicates = None once `directory` is given a new value
after_directory_change(held) == None

\* lines 357-368: a protected directory is refused and another one asked for
DupGuardReject ==
    /\ pc = "d_loop"
    /\ target_is_protected(directory)
    /\ guard' = [tool |-> "dup", path |-> directory, result |-> TRUE]
    /\ \E new_dir \in Typed :
        IF new_dir # <<>> /\ isdir(new_dir)
        THEN /\ directory' = abspath(new_dir)
             /\ made' = made
             /\ duplicates' = after_directory_change(duplicates)
             /\ msg' = {"protected"}
        ELSE /\ directory' = get_safe_default_directory
             /\ made' = made \cup makedirs_of_default
             /\ msg' = {"protected", "invalid_directory"}
             /\ UNCHANGED duplicates
    /\ scan' = None
    /\ del' = None
    /\ menu' = None
    /\ UNCHANGED <<platform, present, content, mtime, linkTo, tree, org,
                   extRemoved, scriptAt, homeAt, cwdAt, tool, pc>>

\* lines 371-399: nothing is held, so the directory is scanned and the
\* menu for the result is shown
DupScan ==
    /\ pc = "d_loop"
    /\ ~target_is_protected(directory)
    /\ duplicates = None
    /\ guard' = [tool |-> "dup", path |-> directory, result |-> FALSE]
    /\ \E sub \in BOOLEAN :
       \E fail \in ScanFailures(DirOf(directory), sub) :
        LET r == find_duplicates(DirOf(directory), sub, fail[1], fail[2]) IN
        /\ scan' = ScanRecord(directory, sub, fail[1], fail[2], r)
        /\ duplicates' = IF r.duplicates = <<>> THEN None
                        ELSE [map |-> r.duplicates]
        /\ msg' = IF r.duplicates = <<>> THEN {"no_duplicates"} ELSE {}
    /\ pc' = "d_menu"
    /\ del' = None
    /\ menu' = None
    /\ UNCHANGED <<platform, present, content, mtime, linkTo, tree, org,
                   extRemoved, scriptAt, homeAt, cwdAt, made, tool, directory>>

\* lines 383-393 with groups held from an earlier pass of the loop
DupShowMenu ==
    /\ pc = "d_loop"
    /\ ~target_is_protected(directory)
    /\ duplicates # None
    /\ guard' = [tool |-> "dup", path |-> directory, result |-> FALSE]
    /\ pc' = IF totals_raise(duplicates.map) THEN "crashed" ELSE "d_menu"
    /\ msg' = {}
    /\ scan' = None
    /\ del' = None
    /\ menu' = None
    /\ UNCHANGED <<platform, present, content, mtime, linkTo, tree, org,
                   extRemoved, scriptAt, homeAt, cwdAt, made, tool, directory,
                   duplicates>>

MenuInputs == {"1", "2", "3", "4", "5", "6", "7"}

\* lines 393-407: the 3-option menu maps its numbers onto the full menu
menu_choice(typed) ==
    IF duplicates # None THEN typed
    ELSE IF typed = "1" THEN "3"
    ELSE IF typed = "2" THEN "5"
    ELSE IF typed = "3" THEN "6"
    ELSE typed

\* the menu input being handled: the options the menu showed (lines 391
\* and 396-398) and the text typed
MenuRecord(typed) ==
    [shown |-> IF duplicates # None THEN {"1", "2", "3", "4", "5", "6"}
               ELSE {"1", "2", "3"},
     typed |-> typed]

\* variant: the groups are still held after a deletion
held_after_deletion(held) == held

\* lines 420-421 and 440-441: duplicates = None, "Rescan after deletion"
after_deletion(held) == None

\* lines 409-421
DupChoiceInteractive ==
    /\ pc = "d_menu"
    /\ \E typed \in MenuInputs :
        /\ menu_choice(typed) = "1"
        /\ menu' = MenuRecord(typed)
    /\ \E keep \in BOOLEAN, answers \in [1..Len(duplicates.map) -> AnswerInputs],
          rmFail \in FailSets(Members(duplicates.map)) :
        LET run == delete_interactive(duplicates.map, 1, keep, answers, rmFail,
                                      NewRun(present)) IN
        /\ present' = run.onDisk
        /\ del' = DelRecord("interactive", duplicates.map, keep, rmFail, run)
        /\ msg' = IF run.reported # {} THEN {"failed_to_delete"} ELSE {}
        /\ pc' = IF run.raised THEN "crashed" ELSE "d_loop"
        /\ duplicates' = IF run.raised THEN duplicates
                        ELSE after_deletion(duplicates)
    /\ scan' = None
    /\ guard' = None
    /\ UNCHANGED <<platform, content, mtime, linkTo, tree, org, extRemoved,
                   scriptAt, homeAt, cwdAt, made, tool, directory>>

\* lines 423-441
DupChoiceBulk ==
    /\ pc = "d_menu"
    /\ \E typed \in MenuInputs :
        /\ menu_choice(typed) = "2"
        /\ menu' = MenuRecord(typed)
    /\ \E confirm \in BOOLEAN, keep \in BOOLEAN,
          rmFail \in FailSets(Members(duplicates.map)) :
        IF ~confirm
        THEN /\ msg' = {"cancelled"}
             /\ pc' = "d_loop"
             /\ del' = None
             /\ UNCHANGED <<present, duplicates>>
        ELSE LET run == delete_duplicates(duplicates.map, 1, keep, rmFail,
                                          NewRun(present)) IN
             /\ present' = run.onDisk
             /\ del' = DelRecord("bulk", duplicates.map, keep, rmFail, run)
             /\ msg' = {}
             /\ pc' = IF run.raised THEN "crashed" ELSE "d_loop"
             /\ duplicates' = IF run.raised THEN duplicates
                        ELSE after_deletion(duplicates)
    /\ scan' = None
    /\ guard' = None
    /\ UNCHANGED <<platform, content, mtime, linkTo, tree, org, extRemoved,
                   scriptAt, homeAt, cwdAt, made, tool, directory>>

\* lines 443-454
DupChoiceChangeDir ==
    /\ pc = "d_menu"
    /\ \E typed \in MenuInputs :
        /\ menu_choice(typed) = "3"
        /\ menu' = MenuRecord(typed)
    /\ \E new_dir \in Typed :
        IF new_dir # <<>>
        THEN IF isdir(new_dir)
             THEN /\ directory' = abspath(new_dir)
                  /\ duplicates' = after_directory_change(duplicates)
                  /\ msg' = {}
             ELSE /\ msg' = {"not_found"}
                  /\ UNCHANGED <<directory, duplicates>>
        ELSE /\ msg' = {}
             /\ UNCHANGED <<directory, duplicates>>
    /\ pc' = "d_loop"
    /\ scan' = None
    /\ del' = None
    /\ guard' = None
    /\ UNCHANGED <<platform, present, content, mtime, linkTo, tree, org,
                   extRemoved, scriptAt, homeAt, cwdAt, made, tool>>

\* lines 456-458: show_duplicates_list(duplicates); with nothing held,
\* None.items() raises
DupChoiceList ==
    /\ pc = "d_menu"
    /\ \E typed \in MenuInputs :
        /\ menu_choice(typed) = "4"
        /\ menu' = MenuRecord(typed)
    /\ IF duplicates = None
       THEN /\ pc' = "crashed"
            /\ msg' = {}
            /\ UNCHANGED duplicates
       ELSE IF list_raises(duplicates.map)
       THEN /\ pc' = "crashed"
            /\ msg' = {}
            /\ UNCHANGED duplicates
       ELSE /\ pc' = "d_loop"
            /\ msg' = {}
            /\ duplicates' = [map |-> sorted_in_place(duplicates.map)]
    /\ scan' = None
    /\ del' = None
    /\ guard' = None
    /\ UNCHANGED <<platform, present, content, mtime, linkTo, tree, org,
                   extRemoved, scriptAt, homeAt, cwdAt, made, tool, directory>>

\* lines 460-463
DupChoiceRescan ==
    /\ pc = "d_menu"
    /\ \E typed \in MenuInputs :
        /\ menu_choice(typed) = "5"
        /\ menu' = MenuRecord(typed)
    /\ duplicates' = None
    /\ msg' = {}
    /\ pc' = "d_loop"
    /\ scan' = None
    /\ del' = None
    /\ guard' = None
    /\ UNCHANGED <<platform, present, content, mtime, linkTo, tree, org,
                   extRemoved, scriptAt, homeAt, cwdAt, made, tool, directory>>

\* lines 465-468
DupChoiceExit ==
    /\ pc = "d_menu"
    /\ \E typed \in MenuInputs :
        /\ menu_choice(typed) = "6"
        /\ menu' = MenuRecord(typed)
    /\ msg' = {}
    /\ pc' = "done"
    /\ scan' = None
    /\ del' = None
    /\ guard' = None
    /\ UNCHANGED <<platform, present, content, mtime, linkTo, tree, org,
                   extRemoved, scriptAt, homeAt, cwdAt, made, tool, directory,
                   duplicates>>

\* lines 470-471
DupChoiceInvalid ==
    /\ pc = "d_menu"
    /\ \E typed \in MenuInputs :
        /\ menu_choice(typed) \notin {"1", "2", "3", "4", "5", "6"}
        /\ menu' = MenuRecord(typed)
    /\ msg' = {"invalid_option"}
    /\ pc' = "d_loop"
    /\ scan' = None
    /\ del' = None
    /\ guard' = None
    /\ UNCHANGED <<platform, present, content, mtime, linkTo, tree, org,
                   extRemoved, scriptAt, homeAt, cwdAt, made, tool, directory,
                   duplicates>>

(* sorttofolders.py main, interactive: the directory prompt, the guard of *)
(* the loop and the menu choices that keep or change the directory; the   *)
(* choices that organize are the calls of SpecSort                        *)

\* lines 312-323
SortInteractiveStart ==
    /\ pc = "start"
    /\ tool' = "sort"
    /\ \E directory_input \in Typed :
        IF directory_input # <<>>
        THEN IF isdir(directory_input)
             THEN /\ directory' = abspath(directory_input)
                  /\ msg' = {}
             ELSE /\ directory' = sort_get_safe_default_directory
                  /\ msg' = {"not_found"}
        ELSE /\ directory' = sort_get_safe_default_directory
             /\ msg' = {}
    /\ made' = made \cup sort_makedirs_of_default
    /\ pc' = "s_loop"
    /\ guard' = None
    /\ menu' = None
    /\ UNCHANGED <<platform, present, content, mtime, linkTo, tree, org,
                   extRemoved, scriptAt, homeAt, cwdAt, duplicates, scan, del>>

\* lines 331-341
SortGuardReject ==
    /\ pc = "s_loop"
    /\ sort_is_protected_directory(directory)
    /\ guard' = [tool |-> "sort", path |-> directory, result |-> TRUE]
    /\ \E new_dir \in Typed :
        IF new_dir # <<>> /\ isdir(new_dir)
        THEN /\ directory' = abspath(new_dir)
             /\ made' = made
             /\ msg' = {"protected"}
        ELSE /\ directory' = sort_get_safe_default_directory
             /\ made' = made \cup sort_makedirs_of_default
             /\ msg' = {"protected", "invalid_directory"}
    /\ menu' = None
    /\ UNCHANGED <<platform, present, content, mtime, linkTo, tree, org,
                   extRemoved, scriptAt, homeAt, cwdAt, tool, pc, duplicates,
                   scan, del>>

\* lines 331, 343-344
SortShowMenu ==
    /\ pc = "s_loop"
    /\ ~sort_is_protected_directory(directory)
    /\ guard' = [tool |-> "sort", path |-> directory, result |-> FALSE]
    /\ pc' = "s_menu"
    /\ msg' = {}
    /\ menu' = None
    /\ UNCHANGED <<platform, present, content, mtime, linkTo, tree, org,
                   extRemoved, scriptAt, homeAt, cwdAt, made, tool, directory,
                   duplicates, scan, del>>

\* lines 385-387
SortChoiceCategories ==
    /\ pc = "s_menu"
    /\ msg' = {}
    /\ pc' = "s_loop"
    /\ guard' = None
    /\ menu' = None
    /\ UNCHANGED <<platform, present, content, mtime, linkTo, tree, org,
                   extRemoved, scriptAt, homeAt, cwdAt, made, tool, directory,
                   duplicates, scan, del>>

\* lines 389-399
SortChoiceChangeDir ==
    /\ pc = "s_menu"
    /\ \E new_dir \in Typed :
        IF new_dir # <<>>
        THEN IF isdir(new_dir)
             THEN /\ directory' = abspath(new_dir)
                  /\ msg' = {}
             ELSE /\ msg' = {"not_found"}
                  /\ UNCHANGED directory
        ELSE /\ msg' = {}
             /\ UNCHANGED directory
    /\ pc' = "s_loop"
    /\ guard' = None
    /\ menu' = None
    /\ UNCHANGED <<platform, present, content, mtime, linkTo, tree, org,
                   extRemoved, scriptAt, homeAt, cwdAt, made, tool,
                   duplicates, scan, del>>

\* lines 401-404
SortChoiceExit ==
    /\ pc = "s_menu"
    /\ msg' = {}
    /\ pc' = "done"
    /\ guard' = None
    /\ menu' = None
    /\ UNCHANGED <<platform, present, content, mtime, linkTo, tree, org,
                   extRemoved, scriptAt, homeAt, cwdAt, made, tool, directory,
                   duplicates, scan, del>>

\* lines 406-407
SortChoiceInvalid ==
    /\ pc = "s_menu"
    /\ msg' = {"invalid_option"}
    /\ pc' = "s_loop"
    /\ guard' = None
    /\ menu' = None
    /\ UNCHANGED <<platform, present, content, mtime, linkTo, tree, org,
                   extRemoved, scriptAt, homeAt, cwdAt, made, tool, directory,
                   duplicates, scan, del>>

Next ==
    \/ EnvRemove
    \/ DupBatchStart
    \/ DupBatchConfirm
    \/ DupInteractiveStart
    \/ DupGuardReject
    \/ DupScan
    \/ DupShowMenu
    \/ DupChoiceInteractive
    \/ DupChoiceBulk
    \/ DupChoiceChangeDir
    \/ DupChoiceList
    \/ DupChoiceRescan
    \/ DupChoiceExit
    \/ DupChoiceInvalid
    \/ SortInteractiveStart
    \/ SortGuardReject
    \/ SortShowMenu
    \/ SortChoiceCategories
    \/ SortChoiceChangeDir
    \/ SortChoiceExit
    \/ SortChoiceInvalid

Spec == Init /\ [][Next]_vars

----------------------------------------------------------------------------
(* find_duplicates and the two resolvers called on every tree of the      *)
(* bounds: a scan of photos, then one resolver on what the scan returned  *)

InitFiles ==
    /\ platform = "posix"
    /\ present = Files
    /\ content \in [Files -> Contents]
    /\ mtime \in [Files -> 1..MaxTime]
    /\ linkTo = [f \in Files |-> 0]
    /\ extRemoved = 0
    /\ scriptAt = "photos"
    /\ homeAt = "ualice"
    /\ cwdAt = "photos"
    /\ made = {}
    /\ tool = "lib"
    /\ pc = "f_start"
    /\ directory = <<>>
    /\ duplicates = None
    /\ guard = None
    /\ scan = None
    /\ del = None
    /\ msg = {}
    /\ menu = None
    /\ tree = PlainTree
    /\ org = None

\* the directories find_duplicates is called on: three files and a
\* subfolder, one file, no file
ScanTargets == {"photos", "sub", "ualice"}

CallFind ==
    /\ pc = "f_start"
    /\ \E d \in ScanTargets, sub \in BOOLEAN :
       \E fail \in ScanFailures(d, sub) :
        LET r == find_duplicates(d, sub, fail[1], fail[2]) IN
        /\ directory' = DirPath(d)
        /\ scan' = ScanRecord(DirPath(d), sub, fail[1], fail[2], r)
        /\ duplicates' = [map |-> r.duplicates]
    /\ pc' = "f_found"
    /\ menu' = None
    /\ UNCHANGED <<platform, present, content, mtime, linkTo, tree, org,
                   extRemoved, scriptAt, homeAt, cwdAt, made, tool, guard,
                   del, msg>>

CallDeleteDuplicates ==
    /\ pc = "f_found"
    /\ duplicates.map # <<>>
    /\ \E keep \in BOOLEAN, rmFail \in FailSets(Members(duplicates.map)) :
        LET run == delete_duplicates(duplicates.map, 1, keep, rmFail,
                                     NewRun(present)) IN
        /\ present' = run.onDisk
        /\ del' = DelRecord("bulk", duplicates.map, keep, rmFail, run)
    /\ pc' = "f_done"
    /\ scan' = None
    /\ menu' = None
    /\ UNCHANGED <<platform, content, mtime, linkTo, tree, org, extRemoved,
                   scriptAt, homeAt, cwdAt, made, tool, directory, duplicates,
                   guard, msg>>

CallDeleteInteractive ==
    /\ pc = "f_found"
    /\ duplicates.map # <<>>
    /\ \E keep \in BOOLEAN, answers \in [1..Len(duplicates.map) -> AnswerInputs],
          rmFail \in FailSets(Members(duplicates.map)) :
        LET run == delete_interactive(duplicates.map, 1, keep, answers, rmFail,
                                      NewRun(present)) IN
        /\ present' = run.onDisk
        /\ del' = DelRecord("interactive", duplicates.map, keep, rmFail, run)
        /\ msg' = IF run.reported # {} THEN {"failed_to_delete"} ELSE {}
    /\ pc' = "f_done"
    /\ scan' = None
    /\ menu' = None
    /\ UNCHANGED <<platform, content, mtime, linkTo, tree, org, extRemoved,
                   scriptAt, homeAt, cwdAt, made, tool, directory, duplicates,
                   guard>>

NextFiles ==
    \/ CallFind
    \/ CallDeleteDuplicates
    \/ CallDeleteInteractive

SpecFiles == InitFiles /\ [][NextFiles]_vars

----------------------------------------------------------------------------
(* The same calls on trees in which one entry is a symbolic link to a     *)
(* file of the tree: isfile, getsize, getmtime and open follow the link,  *)
(* os.remove removes the entry it is given                                *)

\* the links of the trees: within photos in both listing orders, from
\* photos to the third file of a group, and across the two folders
LinkPairs == {<<1, 2>>, <<2, 1>>, <<3, 1>>, <<4, 3>>}

InitLinks ==
    /\ platform = "posix"
    /\ present = Files
    /\ content \in [Files -> {<<b>> : b \in 1..MaxByte}]
    /\ mtime \in [Files -> 1..MaxTime]
    /\ \E p \in LinkPairs :
          linkTo = [f \in Files |-> IF f = p[1] THEN p[2] ELSE 0]
    /\ extRemoved = 0
    /\ scriptAt = "photos"
    /\ homeAt = "ualice"
    /\ cwdAt = "photos"
    /\ made = {}
    /\ tool = "lib"
    /\ pc = "f_start"
    /\ directory = <<>>
    /\ duplicates = None
    /\ guard = None
    /\ scan = None
    /\ del = None
    /\ msg = {}
    /\ menu = None
    /\ tree = PlainTree
    /\ org = None

SpecLinks == InitLinks /\ [][NextFiles]_vars

----------------------------------------------------------------------------
(* get_safe_default_directory called on its own, for every placement of   *)
(* the script, the home directory and the working directory, followed by  *)
(* the guard's verdict on the directory it returned                       *)

InitDefault ==
    /\ platform \in Platforms
    /\ present = Files
    /\ \E t \in Trees : content = t.content /\ mtime = t.mtime
    /\ linkTo = [f \in Files |-> 0]
    /\ extRemoved = 0
    /\ scriptAt \in Places
    /\ homeAt \in HomeIds
    /\ cwdAt \in Places
    /\ made = {}
    /\ tool = "lib"
    /\ pc = "g_start"
    /\ directory = <<>>
    /\ duplicates = None
    /\ guard = None
    /\ scan = None
    /\ del = None
    /\ msg = {}
    /\ menu = None
    /\ tree = PlainTree
    /\ org = None

\* doubleterminator.py lines 33-54
CallGetSafeDefault ==
    /\ pc = "g_start"
    /\ tool' = "dup"
    /\ directory' = get_safe_default_directory
    /\ made' = made \cup makedirs_of_default
    /\ guard' = [tool |-> "dup", path |-> get_safe_default_directory,
                 result |-> is_protected_directory(get_safe_default_directory)]
    /\ pc' = "g_done"
    /\ UNCHANGED <<platform, present, content, mtime, linkTo, tree, org,
                   extRemoved, scriptAt, homeAt, cwdAt, duplicates, scan, del,
                   msg, menu>>

\* sorttofolders.py lines 31-52
CallSortGetSafeDefault ==
    /\ pc = "g_start"
    /\ tool' = "sort"
    /\ directory' = sort_get_safe_default_directory
    /\ made' = made \cup sort_makedirs_of_default
    /\ guard' = [tool |-> "sort", path |-> sort_get_safe_default_directory,
                 result |-> sort_is_protected_directory(
                                sort_get_safe_default_directory)]
    /\ pc' = "g_done"
    /\ UNCHANGED <<platform, present, content, mtime, linkTo, tree, org,
                   extRemoved, scriptAt, homeAt, cwdAt, duplicates, scan, del,
                   msg, menu>>

NextDefault ==
    \/ CallGetSafeDefault
    \/ CallSortGetSafeDefault

SpecDefault == InitDefault /\ [][NextDefault]_vars

----------------------------------------------------------------------------
(* organize_files called on every folder of the bounds: three files with  *)
(* names of two extensions, a name without extension that is also the     *)
(* name of a category folder and a hidden name, lying in the folder, in a *)
(* subfolder or in a category folder.  The files are listed in the order  *)
(* of their numbers; every order of names and places is among the folders.*)

Images == <<"I", "m", "a", "g", "e", "s">>

SortNames ==
    { <<"a", ".", "j", "p", "g">>, <<"b", ".", "J", "P", "G">>, Images,
      <<".", "e", "n", "v">> }

SortPlaces == { <<>>, << <<"o", "l", "d">> >>, <<Images>> }

\* a folder of the file system: no two files with one path, no file with
\* the path of a folder; the third file has the first name or the hidden one
SortTrees ==
    { tr \in [name : [SortFiles -> SortNames],
              at   : [SortFiles -> SortPlaces],
              dirs : {{<<>>}}] :
        /\ \A f, g \in SortFiles :
              f # g => file_path_of(tr, f) # file_path_of(tr, g)
        /\ \A f, g \in SortFiles : file_path_of(tr, f) # tr.at[g]
        /\ \A f \in {1, 2} : tr.name[f][1] # "."
        /\ tr.name[3][1] \in {"a", "."} }

WithFolders(tr) ==
    [tr EXCEPT !.dirs = UNION {Prefixes(tr.at[f]) : f \in SortFiles}]

InitSort ==
    /\ platform = "posix"
    /\ present = SortFiles
    /\ content = [f \in Files |-> <<1>>]
    /\ mtime \in [Files -> 1..MaxTime]
    /\ mtime[3] = 1
    /\ mtime[4] = 1
    /\ linkTo = [f \in Files |-> 0]
    /\ extRemoved = 0
    /\ scriptAt = "photos"
    /\ homeAt = "ualice"
    /\ cwdAt = "photos"
    /\ made = {}
    /\ tool = "lib"
    /\ pc = "o_start"
    /\ directory = <<>>
    /\ duplicates = None
    /\ guard = None
    /\ scan = None
    /\ del = None
    /\ msg = {}
    /\ menu = None
    /\ \E tr \in SortTrees : tree = WithFolders(tr)
    /\ org = None

\* the calls main makes (lines 290-301, 350-380) and a call with a mode
\* main does not pass
OrganizeModes ==
    {[mode |-> 1, date_format |-> 2], [mode |-> 4, date_format |-> 2]}
        \cup {[mode |-> m, date_format |-> d] : m \in {2, 3}, d \in DateFormats}

CallOrganize ==
    /\ pc = "o_start"
    /\ \E how \in OrganizeModes, recursive \in BOOLEAN,
          mvFail \in FailSets(present) :
        LET dir == DirPath("photos")
            run == organize_files(dir, tree, present, how.mode,
                                  how.date_format, recursive, mvFail) IN
        /\ directory' = dir
        /\ tree' = run.tree
        /\ present' = run.onDisk
        /\ org' = [dir |-> dir, mode |-> how.mode,
                   date_format |-> how.date_format, recursive |-> recursive,
                   mvFail |-> mvFail, before |-> tree, beforeDisk |-> present,
                   file_list |-> files_to_organize(tree, present, recursive),
                   run |-> run]
    /\ pc' = "o_done"
    /\ UNCHANGED <<platform, content, mtime, linkTo, extRemoved, scriptAt,
                   homeAt, cwdAt, made, tool, duplicates, guard, scan, del,
                   msg, menu>>

\* the same call on a directory the guard refuses or that does not exist
CallOrganizeRefused ==
    /\ pc = "o_start"
    /\ \E dir \in {DirPath("sysapp"), MissingDir} :
        LET run == organize_files(dir, tree, present, 1, 2, TRUE, {}) IN
        /\ directory' = dir
        /\ tree' = run.tree
        /\ present' = run.onDisk
        /\ org' = [dir |-> dir, mode |-> 1, date_format |-> 2,
                   recursive |-> TRUE, mvFail |-> {}, before |-> tree,
                   beforeDisk |-> present,
                   file_list |-> files_to_organize(tree, present, TRUE),
                   run |-> run]
    /\ pc' = "o_done"
    /\ UNCHANGED <<platform, content, mtime, linkTo, extRemoved, scriptAt,
                   homeAt, cwdAt, made, tool, duplicates, guard, scan, del,
                   msg, menu>>

NextSort ==
    \/ CallOrganize
    \/ CallOrganizeRefused

SpecSort == InitSort /\ [][NextSort]_vars

----------------------------------------------------------------------------
(* Properties of find_duplicates, checked under SpecFiles *)

\* the files of the i-th group of the last scan
GroupFiles(i) == Range(scan.duplicates[i].files)

\* the groups of the last scan that hold f
GroupsOf(f) == {i \in 1..Len(scan.duplicates) : f \in GroupFiles(i)}

\* C1: every group returned by find_duplicates, with or without
\* subfolders, holds only scanned files of one byte size and one content
\* digest: two files of different size, or of different content, are
\* never members of the same group.
C1_GroupsAreEqualFiles ==
    scan # None =>
        \A i \in 1..Len(scan.duplicates) :
            /\ GroupFiles(i) \subseteq Range(scan.files)
            /\ \A f, g \in GroupFiles(i) :
                /\ Len(content[f]) = Len(content[g])
                /\ md5(content[f]) = md5(content[g])
                /\ content[f] = content[g]

\* a recursive scan returned a group although two scanned files of one
\* size differ in content, one of them a member of the group
C1_Witness ==
    /\ scan # None
    /\ scan.recursive
    /\ \E i \in 1..Len(scan.duplicates) :
       \E f \in GroupFiles(i), g \in Range(scan.files) :
        /\ Len(content[f]) = Len(content[g])
        /\ content[f] # content[g]

\* C2: after find_duplicates on a tree where every file is readable, any
\* two scanned files of identical size and content are members of one and
\* the same group, and each such file is a member of exactly one group.
C2_EqualFilesShareOneGroup ==
    (scan # None /\ scan.statFail = {} /\ scan.hashFail = {}) =>
        \A f, g \in Range(scan.files) :
            (f # g /\ content[f] = content[g]) =>
                /\ Cardinality(GroupsOf(f)) = 1
                /\ GroupsOf(f) = GroupsOf(g)
                /\ \A i \in GroupsOf(f) :
                      Cardinality({k \in 1..Len(scan.duplicates[i].files) :
                                     scan.duplicates[i].files[k] = f}) = 1

\* a scan without failures returned two groups, one of them across the
\* folders
C2_Witness ==
    /\ scan # None
    /\ scan.statFail = {} /\ scan.hashFail = {}
    /\ Len(scan.duplicates) = 2
    /\ \E i \in 1..2 : \E f, g \in GroupFiles(i) : FileDir(f) # FileDir(g)

\* C3: every group returned by find_duplicates has at least 2 members,
\* also when files fail to hash; a digest that only one file of a size
\* bucket has never becomes a group.
C3_GroupsHaveTwoMembers ==
    scan # None =>
        \A i \in 1..Len(scan.duplicates) :
            /\ Len(scan.duplicates[i].files) >= 2
            /\ Cardinality(GroupFiles(i)) >= 2

\* a file failed to hash, a group was still returned, and a hashed and
\* readable file with a digest of its own is in no group
C3_Witness ==
    /\ scan # None
    /\ scan.hashFail # {}
    /\ scan.duplicates # <<>>
    /\ \E f \in Range(scan.hashed) \ scan.hashFail : GroupsOf(f) = {}

----------------------------------------------------------------------------
(* Properties of the resolvers, checked under SpecFiles *)

\* the totals expected of a bulk run over the groups from the i-th on
RECURSIVE DuplicatesIn(_, _)
DuplicatesIn(dups, i) ==
    IF i > Len(dups) THEN 0
    ELSE (Len(dups[i].files) - 1) + DuplicatesIn(dups, i + 1)

RECURSIVE ReclaimableIn(_, _)
ReclaimableIn(dups, i) ==
    IF i > Len(dups) THEN 0
    ELSE (Len(dups[i].files) - 1) * Len(content[dups[i].files[1]])
             + ReclaimableIn(dups, i + 1)

\* C4: in delete_duplicates and in delete_interactive, for every group,
\* the one file not put in the removal list has the minimum modification
\* time of the group when keep_oldest is true and the maximum when it is
\* false; the removal list is all the other members of the group.
C4_KeepsOldestOrNewest ==
    del # None =>
        /\ Len(del.run.groups) = Len(del.dups)
        /\ \A i \in 1..Len(del.run.groups) :
            LET g == del.run.groups[i] IN
            /\ Range(g.files) = Range(del.dups[i].files)
            /\ g.keep \in Range(g.files)
            /\ Range(g.to_delete) = Range(g.files) \ {g.keep}
            /\ Len(g.to_delete) = Len(del.dups[i].files) - 1
            /\ \A f \in Range(g.files) :
                IF del.keep_oldest THEN mtime[g.keep] <= mtime[f]
                ELSE mtime[g.keep] >= mtime[f]

\* delete_interactive kept the newest file of a group whose first listed
\* file is older than another member
C4_Witness ==
    /\ del # None
    /\ del.op = "interactive"
    /\ ~del.keep_oldest
    /\ \E i \in 1..Len(del.run.groups) :
        /\ del.run.groups[i].confirmed
        /\ Len(del.dups[i].files) >= 3
        /\ \E f \in Range(del.dups[i].files) :
              mtime[del.dups[i].files[Len(del.dups[i].files)]] < mtime[f]

\* C5: when no removal fails, delete_duplicates removes exactly N-1 files
\* of a group of N identical files of size S, adds N-1 to the deleted
\* count and (N-1)*S to the reclaimed bytes; over several groups the
\* returned totals are the sums over the groups.
C5_BulkTotals ==
    (del # None /\ del.op = "bulk" /\ del.rmFail = {}) =>
        /\ ~del.run.raised
        /\ del.run.deleted_count = DuplicatesIn(del.dups, 1)
        /\ del.run.reclaimed_space = ReclaimableIn(del.dups, 1)
        /\ Cardinality(del.before \ present) = del.run.deleted_count
        /\ present \subseteq del.before
        /\ \A i \in 1..Len(del.dups) :
            /\ Cardinality(Range(del.dups[i].files) \cap present) = 1
            /\ Cardinality(Range(del.dups[i].files) \ present)
                  = Len(del.dups[i].files) - 1

\* delete_duplicates, with no failure, resolved two groups of files of
\* different sizes
C5_Witness ==
    /\ del # None
    /\ del.op = "bulk"
    /\ del.rmFail = {}
    /\ Len(del.dups) = 2
    /\ Len(content[del.dups[1].files[1]]) # Len(content[del.dups[2].files[1]])
    /\ del.run.reclaimed_space > 0

----------------------------------------------------------------------------
(* Properties of the guards and of main, checked under Spec *)

\* C6: is_protected_directory is true for a filesystem root (C:\ and /),
\* true for a reserved system directory itself given without a trailing
\* separator (such as /etc) and for the paths below it, and false for a
\* directory that is none of these, such as /home/alice/photos.
C6_GuardOfRootsAndSystemDirs ==
    (guard # None /\ isdir(guard.path)) =>
        /\ DirOf(guard.path) \in {"root", "sys", "sysapp"} => guard.result
        /\ DirOf(guard.path) = "photos" => ~guard.result

\* C7: the Users-root rule of sorttofolders' is_protected_directory is
\* true for the shared users directory itself and does not make an
\* immediate subdirectory of it, such as c:/users/alice, protected.
C7_UsersRootRule ==
    (guard # None /\ guard.tool = "sort" /\ isdir(guard.path)) =>
        /\ DirOf(guard.path) = "users" => guard.result
        /\ DirOf(guard.path) = "ualice" => ~guard.result

\* C8: in every run of the duplicate tool, find_duplicates,
\* delete_duplicates and delete_interactive are invoked only while
\* is_protected_directory is false for the current target directory, and
\* a protected target gives an error message and no scan or delete.
C8_NoScanOrDeleteWhenProtected ==
    /\ scan # None =>
          /\ scan.dir = directory
          /\ ~is_protected_directory(scan.dir)
    /\ del # None =>
          /\ del.dir = directory
          /\ ~is_protected_directory(del.dir)
    /\ (guard # None /\ guard.tool = "dup" /\ guard.result) =>
          /\ is_protected_directory(guard.path)
          /\ "protected" \in msg
          /\ scan = None
          /\ del = None

\* after a deletion the directory was changed to a protected one, which
\* the loop refused with the error message
C8_Witness ==
    /\ guard # None
    /\ guard.tool = "dup"
    /\ guard.result
    /\ pc = "d_loop"
    /\ "protected" \in msg
    /\ extRemoved = 0
    /\ present # Files

\* the removal candidates of the groups a resolver run was to process
Candidates(d) ==
    UNION {Range(files_to_delete(sort_by_mtime(d.dups[i].files),
                                 d.keep_oldest)) :
              i \in {j \in 1..Len(d.dups) :
                        d.op = "bulk" \/ j > Len(d.run.groups)
                            \/ d.run.groups[j].confirmed}}

\* C9: in bulk and interactive resolution, when a member of a group cannot
\* be removed because it was already removed or permission is denied, the
\* failure is caught, every other removal candidate of that group and of
\* the later groups is still processed, and the resolver returns normally.
C9_ResolverNeverAborts ==
    del # None =>
        /\ ~del.run.raised
        /\ Len(del.run.groups) = Len(del.dups)
        /\ Candidates(del) \subseteq del.run.removed \cup del.run.failed

\* C10: after delete_duplicates or delete_interactive every removal
\* candidate is accounted for as deleted or as a reported failure; no
\* failure is dropped silently.
C10_FailuresAreReported ==
    (del # None /\ ~del.run.raised) =>
        /\ del.run.failed \subseteq del.run.reported
        /\ Candidates(del) \subseteq del.run.removed \cup del.run.reported

----------------------------------------------------------------------------
(* More properties of the resolvers, checked under SpecFiles *)

\* the sum of the sizes of the files of S
RECURSIVE SizeOf(_)
SizeOf(S) ==
    IF S = {} THEN 0
    ELSE LET f == CHOOSE x \in S : TRUE
         IN Len(content[f]) + SizeOf(S \ {f})

\* the groups of the last run whose prompt was answered 'y'
Consented(d) ==
    {i \in 1..Len(d.run.groups) :
        Lower(Strip(d.run.groups[i].answer)) = <<"y">>}

\* C11: in delete_interactive, for every group whose confirmation answer
\* is anything other than 'y' (as compared by the code, after strip and
\* lower), no member is removed and the counters are unchanged by that
\* group, and the function goes on with the next group; files are removed
\* only in groups answered 'y'.
C11_DeclinedGroupsUntouched ==
    (del # None /\ del.op = "interactive") =>
        /\ Len(del.run.groups) = Len(del.dups)
        /\ \A i \in 1..Len(del.run.groups) :
              i \notin Consented(del) =>
                  /\ ~del.run.groups[i].confirmed
                  /\ Range(del.dups[i].files) \cap del.before \subseteq present
        /\ del.before \ present \subseteq
              UNION {Range(del.run.groups[i].to_delete) : i \in Consented(del)}
        /\ del.run.deleted_count = Cardinality(del.before \ present)
        /\ del.run.reclaimed_space = SizeOf(del.before \ present)

\* delete_interactive was declined for the first group, with 'n', and
\* removed a file of the second group, which was answered 'y'
C11_Witness ==
    /\ del # None
    /\ del.op = "interactive"
    /\ Len(del.run.groups) = 2
    /\ del.run.groups[1].answer = <<"n">>
    /\ del.run.groups[2].answer = <<" ", "Y">>
    /\ Range(del.dups[2].files) \ present # {}
    /\ Range(del.dups[1].files) \subseteq present
    /\ del.run.reclaimed_space > 0

----------------------------------------------------------------------------
(* Properties of the interactive driver, checked under Spec *)

\* the Exit option of the menu that was shown
ExitOption(m) == IF m.shown = {"1", "2", "3"} THEN "3" ELSE "6"

\* C12: in both menu states of the interactive duplicate tool, every input
\* that is not one of the options displayed is answered with the
\* invalid-option message and the menu comes again; no input makes the
\* session raise, and only the Exit option ends it.
C12_UndisplayedInputIsInvalid ==
    menu # None =>
        /\ menu.typed \notin menu.shown =>
              /\ "invalid_option" \in msg
              /\ pc = "d_loop"
        /\ pc = "done" => menu.typed = ExitOption(menu)
        /\ pc = "crashed" => extRemoved > 0

----------------------------------------------------------------------------
(* Properties of find_duplicates under failures, checked under SpecFiles *)

\* the scanned files whose size and bytes the last scan could read
Readable == Range(scan.files) \ (scan.statFail \cup scan.hashFail)

\* C14: when calculate_file_hash fails for one file of a size bucket, only
\* that file is left out: the scan does not abort and the other files of
\* the bucket are grouped exactly as if the failing file had not been
\* there, so a bucket of 3 or more with one unreadable member still yields
\* the group of its other identical members.
C14_HashFailureLeavesOutOneFile ==
    scan # None =>
        /\ \A f \in scan.hashFail \cup scan.statFail : GroupsOf(f) = {}
        /\ \A f \in Readable :
            LET same == {g \in Readable : content[g] = content[f]} IN
            IF Cardinality(same) >= 2
            THEN \E i \in 1..Len(scan.duplicates) :
                    /\ GroupsOf(f) = {i}
                    /\ GroupFiles(i) = same
            ELSE GroupsOf(f) = {}

\* one of three identical files of a bucket failed to hash and the other
\* two were returned as a group
C14_Witness ==
    /\ scan # None
    /\ \E f \in scan.hashFail :
       \E i \in 1..Len(scan.duplicates) :
        /\ Cardinality(GroupFiles(i)) = 2
        /\ \A g \in GroupFiles(i) : content[g] = content[f]

----------------------------------------------------------------------------
(* Properties of the driver's handling of its target, checked under Spec *)

\* the diagnostics for a directory that is missing or protected
DirectoryDiagnostics == {"not_found", "invalid_directory", "protected"}

\* C15: in non-interactive mode a missing or protected target directory
\* prints a diagnostic and terminates with no scan and no deletion; in
\* interactive mode a protected or missing directory leads to a new
\* prompt for a directory, so nothing is scanned and no menu is shown
\* before a directory has been entered again; no mode raises.
C15_BadTargetStopsOrReprompts ==
    [][/\ (/\ pc = "start" /\ tool' = "dup" /\ pc' # "d_loop"
           /\ (~isdir(directory') \/ is_protected_directory(directory'))) =>
              /\ msg' \cap DirectoryDiagnostics # {}
              /\ pc' = "done"
              /\ scan' = None
              /\ del' = None
       /\ (tool = "dup" /\ pc = "d_loop"
              /\ msg \cap DirectoryDiagnostics # {}) =>
              /\ scan' = None
              /\ del' = None
              /\ pc' = "d_loop"
       /\ (msg' \cap DirectoryDiagnostics # {}) => pc' # "crashed"]_vars

\* the scanned files that share their size with another scanned file whose
\* size could be read
SizeCollides(f) ==
    \E g \in Range(scan.files) \ scan.statFail :
        g # f /\ Len(content[g]) = Len(content[f])

\* C16: in the size scan of find_duplicates a failure to read one file's
\* size skips that file (it enters no size bucket), still advances the
\* processed counter by one and never aborts the scan; at the end of the
\* scan the processed counter equals the total counted in the first pass.
C16_SizeFailureSkipsAndCounts ==
    scan # None =>
        /\ scan.total_files = Len(scan.files)
        /\ scan.processed_files = scan.total_files
        /\ \A f \in scan.statFail :
              /\ f \notin Range(scan.hashed)
              /\ GroupsOf(f) = {}
        /\ \A f \in Range(scan.files) \ scan.statFail :
              f \in Range(scan.hashed) <=> SizeCollides(f)

\* the size of one file could not be read and the scan still counted
\* every file and returned a group of the others
C16_Witness ==
    /\ scan # None
    /\ scan.statFail # {}
    /\ scan.total_files >= 3
    /\ scan.processed_files = scan.total_files
    /\ scan.duplicates # <<>>

ContainingDir(f) == DirPath(FileDir(f))

\* C18: no file is scanned or deleted whose containing directory is
\* classified protected by is_protected_directory: with subfolders
\* included, every file that find_duplicates puts in a group and every
\* file that a delete operation removes lies in a directory for which
\* is_protected_directory is false, not only the target directory.
C18_NoFileOfProtectedSubfolder ==
    /\ scan # None =>
          \A i \in 1..Len(scan.duplicates) :
              \A f \in Range(scan.duplicates[i].files) :
                  ~is_protected_directory(ContainingDir(f))
    /\ del # None =>
          \A f \in del.run.removed :
              ~is_protected_directory(ContainingDir(f))

----------------------------------------------------------------------------
(* More properties of the resolvers, checked under SpecFiles *)

\* the place of x in a list without repetitions
PlaceIn(list, x) == CHOOSE k \in 1..Len(list) : list[k] = x

\* C19: the ordering of a group before the retain/remove choice is stable:
\* members of equal modification time keep the relative order they had in
\* the group's list, so the retained file and the removal list are fixed
\* by the list and the times; with keep_oldest and all times equal the
\* retained file is the first one discovered.
C19_StableOrderFixesTheChoice ==
    del # None =>
        \A i \in 1..Len(del.run.groups) :
            LET orig == del.dups[i].files
                g    == del.run.groups[i]
            IN
            /\ Len(g.files) = Len(orig)
            /\ Range(g.files) = Range(orig)
            /\ \A a, b \in 1..Len(g.files) :
                  a < b =>
                      /\ mtime[g.files[a]] <= mtime[g.files[b]]
                      /\ mtime[g.files[a]] = mtime[g.files[b]] =>
                            PlaceIn(orig, g.files[a]) < PlaceIn(orig, g.files[b])
            /\ g.to_delete = IF del.keep_oldest
                             THEN SubSeq(g.files, 2, Len(g.files))
                             ELSE SubSeq(g.files, 1, Len(g.files) - 1)
            /\ (del.keep_oldest /\ \A f \in Range(orig) : mtime[f] = mtime[orig[1]])
                  => g.keep = orig[1]

\* a group of three whose first discovered file is the newest and whose
\* other two files have one time: the sort moved the first file to the end
\* and left the other two in their order
C19_Witness ==
    /\ del # None
    /\ del.keep_oldest
    /\ \E i \in 1..Len(del.run.groups) :
        LET orig == del.dups[i].files IN
        /\ Len(orig) = 3
        /\ mtime[orig[1]] > mtime[orig[2]]
        /\ mtime[orig[2]] = mtime[orig[3]]
        /\ del.run.groups[i].files = <<orig[2], orig[3], orig[1]>>
        /\ del.run.groups[i].keep = orig[2]

\* C20: for every run of delete_duplicates and delete_interactive, also
\* when removals fail, the returned deleted count is the number of files
\* the run removed and the returned reclaimed bytes are the sum of the
\* sizes those files had before removal; a file whose removal failed adds
\* to neither.
C20_TotalsCountRemovedFilesOnly ==
    del # None =>
        /\ del.run.removed = del.before \ present
        /\ del.run.failed \subseteq present
        /\ del.run.failed \cap del.run.removed = {}
        /\ del.run.deleted_count = Cardinality(del.run.removed)
        /\ del.run.reclaimed_space = SizeOf(del.run.removed)

\* a run in which one removal failed and another, of a file that is not
\* empty, succeeded
C20_Witness ==
    /\ del # None
    /\ del.run.failed # {}
    /\ del.run.removed # {}
    /\ del.run.reclaimed_space > 0
    /\ \E f \in del.run.failed : Len(content[f]) > 0

----------------------------------------------------------------------------
\* C21: the directory get_safe_default_directory returns is never one the
\* guard of the same script refuses, whatever the script directory, the
\* home directory and the working directory are; in particular not when
\* all three are refused and the folder under the home directory is
\* returned.
C21_DefaultIsNeverProtected ==
    (pc = "g_done" /\ guard # None) => ~guard.result

----------------------------------------------------------------------------
\* the same groups under the same keys in the same order, each with the
\* same files: what an in-place sort of the file lists leaves of a mapping
SameGroups(a, b) ==
    /\ Len(a) = Len(b)
    /\ \A i \in 1..Len(a) :
        /\ a[i].key = b[i].key
        /\ Len(a[i].files) = Len(b[i].files)
        /\ Range(a[i].files) = Range(b[i].files)

\* C22: in the interactive driver of the duplicate tool, whenever groups
\* are held they are not empty and are the result of the most recent scan
\* of the current directory, with no delete and no change of directory
\* since: every step that leaves groups held either is that scan, or keeps
\* the directory and the groups and runs no resolver.  So the groups a
\* delete or a list acts on are never those of another directory.
C22_HeldGroupsAreOfTheLastScan ==
    [][(tool' = "dup" /\ pc' \in {"d_loop", "d_menu"} /\ duplicates' # None) =>
          /\ duplicates'.map # <<>>
          /\ \A f \in Members(duplicates'.map) :
                 Below(FileDir(f), DirOf(directory'))
          /\ \/ /\ scan' # None
                /\ scan'.dir = directory'
                /\ scan'.duplicates = duplicates'.map
             \/ /\ scan' = None
                /\ del' = None
                /\ duplicates # None
                /\ directory' = directory
                /\ SameGroups(duplicates'.map, duplicates.map)]_vars

\* the list operation has run on groups found by a scan that followed a
\* deletion, and the groups are still held
C22_Witness ==
    /\ tool = "dup"
    /\ pc = "d_loop"
    /\ menu # None
    /\ menu.typed = "4"
    /\ duplicates # None
    /\ extRemoved = 0
    /\ present # Files

----------------------------------------------------------------------------
\* the groups of a mapping share no file and list no file twice
DisjointGroups(dups) ==
    /\ \A i \in 1..Len(dups) :
           Cardinality(Range(dups[i].files)) = Len(dups[i].files)
    /\ \A i, j \in 1..Len(dups) :
           i # j => Range(dups[i].files) \cap Range(dups[j].files) = {}

\* C23: the groups find_duplicates returns are pairwise disjoint and list
\* no path twice, and a resolver never removes the file it retains; so
\* after a bulk or interactive resolution (nothing else touching the
\* files) every confirmed group has exactly its retained file on disk,
\* every declined group all its members, and the content of every group
\* can still be read from one of its files.  Stated here for the runs in
\* which no os.remove fails.
C23_EveryContentKeepsACopy ==
    (del # None /\ del.rmFail = {} /\ ~del.run.raised) =>
        /\ DisjointGroups(del.dups)
        /\ \A i \in 1..Len(del.run.groups) :
            LET g == del.run.groups[i] IN
            /\ g.keep \in present
            /\ g.confirmed => Range(g.files) \cap present = {g.keep}
            /\ ~g.confirmed => Range(g.files) \subseteq present
            /\ \E f \in Files :
                  /\ exists_on(f, present)
                  /\ content[target(f)] = content[target(g.files[1])]

----------------------------------------------------------------------------
(* Properties of organize_files, checked under SpecSort *)

\* C24: organize_files never overwrites and never loses a file.  When the
\* run completes: every file that was on disk still is, and no two files
\* have one path; a file was moved only when nothing had its target path,
\* and is then at the target path; a file whose target path existed was
\* counted as skipped and is at its original path; every listed file is at
\* its original or at its target path, every other file where it was; and
\* moved + skipped + errors is the number of files listed.
C24_OrganizeNeverOverwritesOrLoses ==
    (org # None /\ org.run.returned = TRUE) =>
        LET run == org.run IN
        /\ org.beforeDisk \subseteq present
        /\ \A f, g \in present :
              f # g => file_path_of(tree, f) # file_path_of(tree, g)
        /\ Len(run.steps) = Len(org.file_list)
        /\ \A k \in 1..Len(run.steps) :
            LET s == run.steps[k] IN
            /\ s.file = org.file_list[k]
            /\ s.from = org.before.at[s.file]
            /\ s.outcome = "moved" => ~s.existed /\ tree.at[s.file] = s.to
            /\ s.existed => s.outcome = "skipped"
            /\ s.outcome # "moved" => tree.at[s.file] = s.from
        /\ \A f \in present \ Range(org.file_list) :
              tree.at[f] = org.before.at[f]
        /\ \A f \in SortFiles : tree.name[f] = org.before.name[f]
        /\ run.moved = Cardinality({k \in 1..Len(run.steps) :
                                       run.steps[k].outcome = "moved"})
        /\ run.skipped = Cardinality({k \in 1..Len(run.steps) :
                                         run.steps[k].outcome = "skipped"})
        /\ run.moved + run.skipped + run.errors = Len(org.file_list)

\* one run moved a file, skipped a file of the same name whose target path
\* the first move had taken, and counted a failed move
C24_Witness ==
    /\ org # None
    /\ org.run.returned = TRUE
    /\ org.run.moved = 1
    /\ org.run.skipped = 1
    /\ org.run.errors = 1
    /\ \E j, k \in 1..Len(org.run.steps) :
          /\ j < k
          /\ org.run.steps[j].outcome = "moved"
          /\ org.run.steps[k].outcome = "skipped"
          /\ org.before.name[org.run.steps[j].file]
                = org.before.name[org.run.steps[k].file]

====
